---- MODULE Spec2Model ----
(***************************************************************************)
(* The incremental feed engine of prj-board: the Home page                 *)
(* (src/src/pages/Home.tsx) and the usePosts hook (src/unnamed/part_001).  *)
(*                                                                         *)
(* React is modelled as follows.  `state` is the reducer state with every  *)
(* dispatched action applied (React applies queued actions in dispatch     *)
(* order at the next render, so the value is the same).  A dispatch is not *)
(* visible to stateRef.current, to the effects or to the rendered buttons  *)
(* until the component renders again: Render is the commit, with the       *)
(* effects of that commit run in the order the source declares them.       *)
(* Event handlers, observer callbacks and promise continuations run to     *)
(* their next await in one step.  Scheduling: React flushes the render a   *)
(* handler or continuation scheduled before the browser runs the next      *)
(* task, so a handler starts from a committed state; what a handler does   *)
(* between its own dispatches and that commit (Retry, the filter-change    *)
(* effect) still reads the stale stateRef.current.                         *)
(***************************************************************************)
EXTENDS Integers, Sequences, FiniteSets, TLC

\* ------------------------------------------------------------------ bounds
MaxInFlight == 2        \* listing requests outstanding at the same time
MaxTotalPages == 2      \* largest totalPages the server reports
ItemsPerPage == 1       \* items the server returns for a page that exists

\* ------------------------------------------------------------ value domains
Searches == {"", "cats"}
Sorts == {"date", "likes"}
FeedTypes == {"forYou", "following"}
NoToken == "none"
Tokens == {"tok"}
NoError == "null"
ErrorMessage == "Failed to load posts"

VARIABLES
    component,       \* "Home" or "usePosts": which of the two engines runs
    state,           \* reducer state, all dispatched actions applied
    stateRef,        \* stateRef.current: the state of the last commit
    isInitialMount,  \* isInitialMount.current
    isFetchingRef,   \* isFetchingRef.current
    prevFiltersRef,  \* prevFiltersRef.current (Home)
    observing,       \* the sentinel is observed by an IntersectionObserver
    observerToken,   \* accessToken closed over by the observed loadPosts
    accessToken,     \* AuthContext accessToken
    renderedToken,   \* accessToken closed over by the last render's loadPosts
    inflight,        \* listing requests issued and not yet resolved
    genResolved,     \* history: a request issued since the last reset resolved
    lastTotal,       \* history: <<totalPages>> of the last FETCH_SUCCESS since the
                     \* last reset, <<>> when there was none
    issuedFirst,     \* history: page 1 was requested with the current filters
                     \* since the filters last changed
    visible,         \* the sentinel element is at least 10% visible
    prevIntersecting,\* isIntersecting of the entry the current observer
                     \* delivered last (false for a new observer)
    invoked,         \* history: the load callback was invoked since the
                     \* sentinel last became visible
    user,            \* AuthContext user is set (not null)
    authLoading,     \* AuthContext loading
    lastPage,        \* history: page of the request issued last since the
                     \* last reset, 0 when there was none
    successes,       \* history: FETCH_SUCCESS transitions since the last reset
    leftover,        \* access tokens of the load callbacks of observers of
                     \* earlier renders that are still registered
    mounted,         \* the component is mounted
    calls            \* AuthContext: where initializeAuth, login() and
                     \* logout() stand, and how the calls ended

vars == <<component, state, stateRef, isInitialMount, isFetchingRef,
          prevFiltersRef, observing, observerToken, accessToken,
          renderedToken, inflight, genResolved, lastTotal, issuedFirst,
          visible, prevIntersecting, invoked, user, authLoading, lastPage, successes, leftover, mounted, calls>>

\* ----------------------------------------------------------------- reducer
initialState ==
    [posts |-> <<>>, loading |-> FALSE, error |-> NoError, page |-> 1,
     hasMore |-> TRUE, searchQuery |-> "", sortBy |-> "date",
     feedType |-> "forYou"]

FetchStart == [type |-> "FETCH_START"]
FetchSuccess(ps, tp) == [type |-> "FETCH_SUCCESS", posts |-> ps, totalPages |-> tp]
FetchError(msg) == [type |-> "FETCH_ERROR", payload |-> msg]
Reset == [type |-> "RESET"]
SetSearchAction(q) == [type |-> "SET_SEARCH", payload |-> q]
SetSortAction(s) == [type |-> "SET_SORT", payload |-> s]
SetFeedTypeAction(f) == [type |-> "SET_FEED_TYPE", payload |-> f]

\* Faulty variant: hasMore computed with < instead of <=.
homeNewHasMoreStrict(newPage, totalPages) == newPage < totalPages

homeNewHasMore(newPage, totalPages) == newPage <= totalPages

homeReducer(st, a) ==
    CASE a.type = "FETCH_START" ->
           [st EXCEPT !.loading = TRUE, !.error = NoError]
      [] a.type = "FETCH_SUCCESS" ->
           LET newPage == st.page + 1
               newHasMore == homeNewHasMore(newPage, a.totalPages)
           IN  [st EXCEPT !.loading = FALSE,
                          !.posts = st.posts \o a.posts,
                          !.page = newPage,
                          !.hasMore = newHasMore]
      [] a.type = "FETCH_ERROR" ->
           [st EXCEPT !.loading = FALSE, !.error = a.payload]
      [] a.type = "RESET" ->
           [initialState EXCEPT !.searchQuery = st.searchQuery,
                                !.sortBy = st.sortBy,
                                !.feedType = st.feedType]
      [] a.type = "SET_SEARCH" ->
           [initialState EXCEPT !.searchQuery = a.payload,
                                !.sortBy = st.sortBy,
                                !.feedType = st.feedType]
      [] a.type = "SET_SORT" ->
           [initialState EXCEPT !.searchQuery = st.searchQuery,
                                !.sortBy = a.payload,
                                !.feedType = st.feedType]
      [] a.type = "SET_FEED_TYPE" ->
           [initialState EXCEPT !.feedType = a.payload,
                                !.searchQuery = st.searchQuery,
                                !.sortBy = st.sortBy]
      [] OTHER -> st

\* PostsState has no feedType field; the model keeps the field at "forYou".
postsReducer(st, a) ==
    CASE a.type = "FETCH_START" ->
           [st EXCEPT !.loading = TRUE, !.error = NoError]
      [] a.type = "FETCH_SUCCESS" ->
           LET newPage == st.page + 1
               newHasMore == newPage <= a.totalPages
           IN  [st EXCEPT !.loading = FALSE,
                          !.posts = st.posts \o a.posts,
                          !.page = newPage,
                          !.hasMore = newHasMore]
      [] a.type = "FETCH_ERROR" ->
           [st EXCEPT !.loading = FALSE, !.error = a.payload]
      [] a.type = "RESET" ->
           [posts |-> <<>>, loading |-> FALSE, error |-> NoError, page |-> 1,
            hasMore |-> TRUE, searchQuery |-> st.searchQuery,
            sortBy |-> st.sortBy, feedType |-> st.feedType]
      [] a.type = "SET_SEARCH" ->
           [posts |-> <<>>, loading |-> FALSE, error |-> NoError, page |-> 1,
            hasMore |-> TRUE, searchQuery |-> a.payload,
            sortBy |-> st.sortBy, feedType |-> st.feedType]
      [] a.type = "SET_SORT" ->
           [posts |-> <<>>, loading |-> FALSE, error |-> NoError, page |-> 1,
            hasMore |-> TRUE, searchQuery |-> st.searchQuery,
            sortBy |-> a.payload, feedType |-> st.feedType]
      [] OTHER -> st

\* Faulty variant: a reset keeps the error of the state it replaces.
dispatchResetKeepsError(comp, st, a) ==
    LET r == IF comp = "Home" THEN homeReducer(st, a) ELSE postsReducer(st, a)
    IN  IF a.type \in {"RESET", "SET_SEARCH", "SET_SORT", "SET_FEED_TYPE"}
        THEN [r EXCEPT !.error = st.error]
        ELSE r

\* Faulty variant: a page that arrives is put in front of the posts.
dispatchPrepends(comp, st, a) ==
    LET r == IF comp = "Home" THEN homeReducer(st, a) ELSE postsReducer(st, a)
    IN  IF a.type = "FETCH_SUCCESS" THEN [r EXCEPT !.posts = a.posts \o st.posts] ELSE r

\* Faulty variant: a failure skips the page that failed.
dispatchErrorAdvancesPage(comp, st, a) ==
    LET r == IF comp = "Home" THEN homeReducer(st, a) ELSE postsReducer(st, a)
    IN  IF a.type = "FETCH_ERROR" THEN [r EXCEPT !.page = st.page + 1] ELSE r

\* Faulty variant: a failure drops the posts loaded so far.
dispatchErrorDropsPosts(comp, st, a) ==
    LET r == IF comp = "Home" THEN homeReducer(st, a) ELSE postsReducer(st, a)
    IN  IF a.type = "FETCH_ERROR" THEN [r EXCEPT !.posts = <<>>] ELSE r

\* Faulty variant: SET_SEARCH does not carry sortBy over.
dispatchSearchDropsSort(comp, st, a) ==
    LET r == IF comp = "Home" THEN homeReducer(st, a) ELSE postsReducer(st, a)
    IN  IF a.type = "SET_SEARCH" THEN [r EXCEPT !.sortBy = initialState.sortBy] ELSE r

dispatch(comp, st, a) ==
    IF comp = "Home" THEN homeReducer(st, a) ELSE postsReducer(st, a)

Filters(st) ==
    [searchQuery |-> st.searchQuery, sortBy |-> st.sortBy, feedType |-> st.feedType]

\* -------------------------------------------------------------- the server
\* A listing request as postService.getAllPosts / getFollowingPosts receives
\* it, with the filters loadPosts captured.  cur is history: the request was
\* issued after the most recent reset.
\* Faulty variant: the request always asks for page 1.
RequestFirstPage(ref, tok) ==
    [page |-> 1, searchQuery |-> ref.searchQuery, sortBy |-> ref.sortBy,
     feedType |-> ref.feedType, token |-> tok, cur |-> TRUE]

Request(ref, tok) ==
    [page |-> ref.page, searchQuery |-> ref.searchQuery, sortBy |-> ref.sortBy,
     feedType |-> ref.feedType, token |-> tok, cur |-> TRUE]

\* getFollowingPosts sends no search query: the following endpoint serves the
\* same items whatever searchQuery loadPosts captured.
ServedSearch(req) == IF req.feedType = "following" THEN "" ELSE req.searchQuery

\* The items of page req.page when the collection has tp pages.  id is the
\* server's identifier; from is history, the filters the request captured.
ResponsePosts(req, tp) ==
    IF req.page <= tp
    THEN [k \in 1..ItemsPerPage |->
            [id |-> <<ServedSearch(req), req.sortBy, req.feedType, req.page, k>>,
             from |-> [searchQuery |-> req.searchQuery, sortBy |-> req.sortBy,
                       feedType |-> req.feedType]]]
    ELSE <<>>

\* ------------------------------------------------- dispatch with history
\* c is what a handler works on: the reducer state, isFetchingRef.current,
\* the outstanding requests, and the history variables.
Ctx ==
    [state |-> state, isFetching |-> isFetchingRef, inflight |-> inflight,
     genResolved |-> genResolved, lastTotal |-> lastTotal,
     issuedFirst |-> issuedFirst, lastPage |-> lastPage,
     successes |-> successes]

MarkStale(infl) == [i \in DOMAIN infl |-> [infl[i] EXCEPT !.cur = FALSE]]

IsResetAction(a) == a.type \in {"RESET", "SET_SEARCH", "SET_SORT", "SET_FEED_TYPE"}

Do(comp, c, a) ==
    LET st == dispatch(comp, c.state, a)
    IN  IF IsResetAction(a)
        THEN [c EXCEPT !.state = st,
                       !.inflight = MarkStale(c.inflight),
                       !.genResolved = FALSE,
                       !.lastTotal = <<>>,
                       !.lastPage = 0,
                       !.successes = 0,
                       !.issuedFirst = c.issuedFirst /\ Filters(st) = Filters(c.state)]
        ELSE IF a.type = "FETCH_SUCCESS"
        THEN [c EXCEPT !.state = st, !.lastTotal = <<a.totalPages>>,
                       !.successes = c.successes + 1]
        ELSE [c EXCEPT !.state = st]

\* ---------------------------------------------------------------- loadPosts
\* Issuing: the request leaves with the values read from stateRef.current.
Issue(c, ref, tok) ==
    [c EXCEPT !.inflight = Append(c.inflight, Request(ref, tok)),
              !.lastPage = ref.page,
              !.issuedFirst = c.issuedFirst
                              \/ (ref.page = 1 /\ Filters(ref) = Filters(c.state))]

\* Faulty variant: the following feed without a token is requested like any other.
HomeLoadPostsNoShortCircuit(c, ref, tok) ==
    IF c.isFetching \/ ~ref.hasMore
    THEN c
    ELSE Issue(Do("Home", [c EXCEPT !.isFetching = TRUE], FetchStart), ref, tok)

\* Home.loadPosts up to its first await (or to its return when it does not
\* await).  ref is stateRef.current, tok the accessToken of the closure.
HomeLoadPosts(c, ref, tok) ==
    IF c.isFetching \/ ~ref.hasMore
    THEN c
    ELSE LET c1 == Do("Home", [c EXCEPT !.isFetching = TRUE], FetchStart)
         IN  IF ref.feedType = "following" /\ tok = NoToken
             THEN [Do("Home", c1, FetchSuccess(<<>>, 0)) EXCEPT !.isFetching = FALSE]
             ELSE Issue(c1, ref, tok)

\* Faulty variant: the hasMore check of the guard is missing.
UsePostsLoadPostsIgnoringHasMore(c, ref, tok) ==
    IF c.isFetching
    THEN c
    ELSE Issue(Do("usePosts", [c EXCEPT !.isFetching = TRUE], FetchStart), ref, NoToken)

\* usePosts.loadPosts up to its await.
UsePostsLoadPosts(c, ref, tok) ==
    IF c.isFetching \/ ~ref.hasMore
    THEN c
    ELSE LET c1 == Do("usePosts", [c EXCEPT !.isFetching = TRUE], FetchStart)
         IN  Issue(c1, ref, NoToken)

loadPosts(comp, c, ref, tok) ==
    IF comp = "Home" THEN HomeLoadPosts(c, ref, tok) ELSE UsePostsLoadPosts(c, ref, tok)

\* Faulty variant: the guard is not released after a success.
AfterSuccessGuardHeld(comp, c, i, tp) ==
    LET req == c.inflight[i]
        c1 == Do(comp, c, FetchSuccess(ResponsePosts(req, tp), tp))
    IN  [c1 EXCEPT !.genResolved = c.genResolved \/ req.cur,
                   !.inflight = SubSeq(c.inflight, 1, i - 1)
                                \o SubSeq(c.inflight, i + 1, Len(c.inflight))]

\* The continuation of loadPosts after the awaited request i resolved.
AfterSuccess(comp, c, i, tp) ==
    LET req == c.inflight[i]
        c1 == Do(comp, c, FetchSuccess(ResponsePosts(req, tp), tp))
    IN  [c1 EXCEPT !.isFetching = FALSE,
                   !.genResolved = c.genResolved \/ req.cur,
                   !.inflight = SubSeq(c.inflight, 1, i - 1)
                                \o SubSeq(c.inflight, i + 1, Len(c.inflight))]

\* Faulty variant: the guard is released on success only (no finally).
AfterFailureGuardHeld(comp, c, i) ==
    LET req == c.inflight[i]
        c1 == Do(comp, c, FetchError(ErrorMessage))
    IN  [c1 EXCEPT !.genResolved = c.genResolved \/ req.cur,
                   !.inflight = SubSeq(c.inflight, 1, i - 1)
                                \o SubSeq(c.inflight, i + 1, Len(c.inflight))]

\* Faulty variant: no catch; the rejection leaves loadPosts through finally.
AfterFailureUncaught(comp, c, i) ==
    LET req == c.inflight[i]
    IN  [c EXCEPT !.isFetching = FALSE,
                  !.genResolved = c.genResolved \/ req.cur,
                  !.inflight = SubSeq(c.inflight, 1, i - 1)
                               \o SubSeq(c.inflight, i + 1, Len(c.inflight))]

AfterFailure(comp, c, i) ==
    LET req == c.inflight[i]
        c1 == Do(comp, c, FetchError(ErrorMessage))
    IN  [c1 EXCEPT !.isFetching = FALSE,
                   !.genResolved = c.genResolved \/ req.cur,
                   !.inflight = SubSeq(c.inflight, 1, i - 1)
                                \o SubSeq(c.inflight, i + 1, Len(c.inflight))]

\* A handler's result becomes the next state.
Commit(c) ==
    /\ Len(c.inflight) <= MaxInFlight
    /\ state' = c.state
    /\ isFetchingRef' = c.isFetching
    /\ inflight' = c.inflight
    /\ genResolved' = c.genResolved
    /\ lastTotal' = c.lastTotal
    /\ issuedFirst' = c.issuedFirst
    /\ lastPage' = c.lastPage
    /\ successes' = c.successes

\* ------------------------------------------------------------------- Init
\* Home reads searchQuery and sortBy from the URL parameters; usePosts from
\* its options.  Nothing has rendered yet.
Init ==
    /\ component \in {"Home", "usePosts"}
    /\ \E q \in Searches, s \in Sorts :
          state = [initialState EXCEPT !.searchQuery = q, !.sortBy = s]
    /\ stateRef = state
    /\ isInitialMount = TRUE
    /\ isFetchingRef = FALSE
    /\ prevFiltersRef = Filters(state)
    /\ observing = FALSE
    /\ observerToken = NoToken
    /\ accessToken = NoToken
    /\ renderedToken = NoToken
    /\ inflight = <<>>
    /\ genResolved = FALSE
    /\ lastTotal = <<>>
    /\ issuedFirst = FALSE
    /\ visible = FALSE
    /\ prevIntersecting = FALSE
    /\ invoked = FALSE
    /\ user = FALSE
    /\ authLoading = TRUE
    /\ lastPage = 0
    /\ successes = 0
    /\ leftover = {}
    /\ mounted = TRUE
    /\ calls = [init |-> "refresh", login |-> "idle", logout |-> "idle",
                pre |-> <<NoToken, FALSE>>, rejected |-> {},
                logoutFailed |-> FALSE, stale |-> {}]

\* ----------------------------------------------------------------- Render
\* The effects of one Home commit, in declaration order: stateRef sync,
\* mount effect, filter-change effect.  rs is the state this render saw.
\* Faulty variant: the mount effect does not check isInitialMount.current.
HomeMountEffectEveryCommit(c, rs, tok) == HomeLoadPosts(c, rs, tok)

HomeMountEffect(c, rs, tok) ==
    IF isInitialMount THEN HomeLoadPosts(c, rs, tok) ELSE c

HomeFilterHasChanged(rs) ==
    \/ prevFiltersRef.searchQuery # rs.searchQuery
    \/ prevFiltersRef.sortBy # rs.sortBy
    \/ prevFiltersRef.feedType # rs.feedType

\* Faulty variant: the effect resets and reloads without clearing the guard.
HomeFilterEffectGuardKept(c, rs, tok) ==
    IF HomeFilterHasChanged(rs)
    THEN HomeLoadPosts(Do("Home", c, Reset), rs, tok)
    ELSE c

HomeFilterEffect(c, rs, tok) ==
    IF HomeFilterHasChanged(rs)
    THEN HomeLoadPosts([Do("Home", c, Reset) EXCEPT !.isFetching = FALSE], rs, tok)
    ELSE c

\* A commit is due: the first one, or a dispatch or a context change since
\* the last one.
NeedsRender ==
    /\ mounted
    /\ \/ isInitialMount
       \/ state # stateRef
       \/ accessToken # renderedToken

\* Faulty variant: the observer is set up while a load is in progress.
ObserverArmedWhileLoading(rs) == rs.hasMore

\* The observer effect: no observer while loading or without more pages.
ObserverArmed(rs) == ~rs.loading /\ rs.hasMore

\* The observer effect re-runs when one of its dependencies changed: the old
\* observer is disconnected from the sentinel and a new one is created.
\* Faulty variant: the load callback is not a dependency of the effect.
HomeObserverRenewedWithoutCallback(rs) ==
    \/ isInitialMount
    \/ rs.hasMore # stateRef.hasMore
    \/ rs.loading # stateRef.loading

\* The observations registered on the sentinel, by the token their load
\* callback closed over.
Registered == leftover \cup (IF observing THEN {observerToken} ELSE {})

\* Faulty variant: the effect has no cleanup.
ObserverCleanupMissing(obs) == obs

\* The cleanup of the observer effect: observer.unobserve(currentTarget).
\* What is left of the observations obs once it has run.
ObserverCleanup(obs) == {}

HomeObserverRenewed(rs) ==
    \/ isInitialMount
    \/ rs.hasMore # stateRef.hasMore
    \/ rs.loading # stateRef.loading
    \/ accessToken # renderedToken

UsePostsObserverRenewed(rs) ==
    \/ isInitialMount
    \/ rs.hasMore # stateRef.hasMore
    \/ rs.loading # stateRef.loading

HomeRender ==
    /\ component = "Home"
    /\ NeedsRender
    /\ LET rs == state
           c1 == HomeMountEffect(Ctx, rs, accessToken)
           c2 == HomeFilterEffect(c1, rs, accessToken)
       IN  /\ Commit(c2)
           /\ stateRef' = rs
           /\ isInitialMount' = FALSE
           /\ prevFiltersRef' = IF HomeFilterHasChanged(rs) THEN Filters(rs)
                                                            ELSE prevFiltersRef
           /\ observing' = ObserverArmed(rs)
           /\ prevIntersecting' = IF HomeObserverRenewed(rs) THEN FALSE
                                                             ELSE prevIntersecting
           /\ observerToken' = IF HomeObserverRenewed(rs) THEN accessToken
                                                          ELSE observerToken
           /\ leftover' = IF HomeObserverRenewed(rs) THEN ObserverCleanup(Registered)
                                                     ELSE leftover
           /\ renderedToken' = accessToken
    /\ UNCHANGED <<component, accessToken, visible, invoked, user, authLoading,
                   mounted, calls>>

\* The effects of one usePosts commit: stateRef sync, filter-change effect
\* (it runs when searchQuery or sortBy differ from the previous render's),
\* mount effect; then the effect of the consumer's useInfiniteScroll.
UsePostsFilterEffect(c, rs) ==
    IF ~isInitialMount /\ (rs.searchQuery # stateRef.searchQuery
                           \/ rs.sortBy # stateRef.sortBy)
    THEN UsePostsLoadPosts(c, rs, NoToken)
    ELSE c

UsePostsMountEffect(c, rs) ==
    IF isInitialMount /\ Len(rs.posts) = 0 /\ ~rs.loading
    THEN UsePostsLoadPosts(c, rs, NoToken)
    ELSE c

UsePostsRender ==
    /\ component = "usePosts"
    /\ NeedsRender
    /\ LET rs == state
           c1 == UsePostsFilterEffect(Ctx, rs)
           c2 == UsePostsMountEffect(c1, rs)
       IN  /\ Commit(c2)
           /\ stateRef' = rs
           /\ isInitialMount' = FALSE
           /\ observing' = ObserverArmed(rs)
           /\ prevIntersecting' = IF UsePostsObserverRenewed(rs) THEN FALSE
                                                                 ELSE prevIntersecting
           /\ leftover' = IF UsePostsObserverRenewed(rs)
                           THEN ObserverCleanup(Registered) ELSE leftover
    /\ UNCHANGED <<component, prevFiltersRef, observerToken, accessToken,
                   renderedToken, visible, invoked, user, authLoading, mounted, calls>>

Render == HomeRender \/ UsePostsRender

\* ----------------------------------------------------------- user events
frame == <<component, stateRef, isInitialMount, prevFiltersRef, observing,
           observerToken, accessToken, renderedToken, visible,
           prevIntersecting, invoked, user, authLoading, leftover, mounted, calls>>

\* A handler or a continuation starts once the commit that was due is done.
Handle == mounted /\ ~NeedsRender

\* Nothing is left to run without a new event: no commit due, no request out.
Quiescent == ~NeedsRender /\ inflight = <<>>

\* handleSearch (input onChange, form onSubmit) / usePosts.setSearch
SetSearch(q) ==
    /\ Handle
    /\ Commit(Do(component, Ctx, SetSearchAction(q)))
    /\ UNCHANGED frame

\* handleSortChange / usePosts.setSort
SetSort(s) ==
    /\ Handle
    /\ Commit(Do(component, Ctx, SetSortAction(s)))
    /\ UNCHANGED frame

\* handleSearch(q) and handleSortChange(s) called in the same tick, both to a
\* new value: the two dispatches are queued before the next render.
SetSearchThenSort(q, s) ==
    /\ component = "Home"
    /\ Handle
    /\ q # state.searchQuery
    /\ s # state.sortBy
    /\ Commit(Do(component, Do(component, Ctx, SetSearchAction(q)), SetSortAction(s)))
    /\ UNCHANGED frame

\* isAuthenticated (!!user && !!accessToken) as the last render of Home saw it.
isAuthenticated == user /\ renderedToken # NoToken

\* Faulty variant: the feed tabs are rendered whatever isAuthenticated is.
SetFeedTypeTabsAlwaysShown(f) ==
    /\ component = "Home"
    /\ Handle
    /\ Commit(Do(component, Ctx, SetFeedTypeAction(f)))
    /\ UNCHANGED frame

\* The feed tabs, rendered for an authenticated user only.
SetFeedType(f) ==
    /\ component = "Home"
    /\ Handle
    /\ isAuthenticated
    /\ Commit(Do(component, Ctx, SetFeedTypeAction(f)))
    /\ UNCHANGED frame

\* The Retry button (rendered while state.error is set) / usePosts.retry
Retry ==
    /\ Handle
    /\ component = "Home" => stateRef.error # NoError
    /\ Commit(loadPosts(component, Do(component, Ctx, Reset), stateRef, renderedToken))
    /\ UNCHANGED frame

\* The IntersectionObserver callback with entries[0].isIntersecting.
SentinelTrigger ==
    /\ component = "Home"
    /\ observing
    /\ Handle
    /\ Commit(loadPosts(component, Ctx, stateRef, observerToken))
    /\ UNCHANGED frame

\* The loadMore function usePosts returns, called by its consumer.
LoadMore ==
    /\ component = "usePosts"
    /\ Handle
    /\ Commit(UsePostsLoadPosts(Ctx, stateRef, NoToken))
    /\ UNCHANGED frame

\* ------------------------------------------------------------- responses
ResolveSuccess(i, tp) ==
    /\ i \in 1..Len(inflight)
    /\ Handle
    /\ Commit(AfterSuccess(component, Ctx, i, tp))
    /\ UNCHANGED frame

ResolveFailure(i) ==
    /\ i \in 1..Len(inflight)
    /\ Handle
    /\ Commit(AfterFailure(component, Ctx, i))
    /\ UNCHANGED frame

\* ------------------------------------------------------------ AuthContext
\* A renewal or a login that went through, as Home sees it in one commit:
\* setAccessToken(authResponse.access_token), setUser(userData) and, at
\* startup, setLoading(false).
SetAccessToken(t) ==
    /\ component = "Home"
    /\ accessToken # t
    /\ Handle
    /\ accessToken' = t
    /\ user' = TRUE
    /\ authLoading' = FALSE
    /\ UNCHANGED <<component, state, stateRef, isInitialMount, isFetchingRef,
                   prevFiltersRef, observing, observerToken, renderedToken,
                   inflight, genResolved, lastTotal, issuedFirst, visible,
                   prevIntersecting, invoked, lastPage, successes, leftover, mounted, calls>>

\* setUser(null) and setAccessToken(null) at the end of logout.
ClearAccessToken ==
    /\ component = "Home"
    /\ accessToken # NoToken
    /\ Handle
    /\ accessToken' = NoToken
    /\ user' = FALSE
    /\ UNCHANGED <<component, state, stateRef, isInitialMount, isFetchingRef,
                   prevFiltersRef, observing, observerToken, renderedToken,
                   inflight, genResolved, lastTotal, issuedFirst, visible,
                   prevIntersecting, invoked, authLoading, lastPage, successes, leftover, mounted, calls>>

Next ==
    \/ Render
    \/ \E q \in Searches : SetSearch(q)
    \/ \E s \in Sorts : SetSort(s)
    \/ \E q \in Searches, s \in Sorts : SetSearchThenSort(q, s)
    \/ \E f \in FeedTypes : SetFeedType(f)
    \/ Retry
    \/ SentinelTrigger
    \/ LoadMore
    \/ \E i \in 1..MaxInFlight, tp \in 0..MaxTotalPages : ResolveSuccess(i, tp)
    \/ \E i \in 1..MaxInFlight : ResolveFailure(i)
    \/ \E t \in Tokens : SetAccessToken(t)
    \/ ClearAccessToken

Spec == Init /\ [][Next]_vars

\* ------------------------------------------------------------ the claims
HasCurrent == \E i \in DOMAIN inflight : inflight[i].cur

RequestFilters(req) ==
    [searchQuery |-> req.searchQuery, sortBy |-> req.sortBy, feedType |-> req.feedType]

\* C1: while a request issued since the last reset is outstanding, a further
\* loadPosts() call (sentinel callback, loadMore) issues no request and
\* dispatches nothing.
C1_AtMostOneInFlight ==
    [][(SentinelTrigger \/ LoadMore) /\ HasCurrent
          => inflight' = inflight /\ state' = state]_vars

\* C2: in Home, once a request issued after a filter change has resolved, the
\* resolution of a request issued for the earlier filters changes none of
\* posts, page, hasMore and error.
C2_StaleResponseImmunity ==
    [][\A i \in DOMAIN inflight :
          (/\ component = "Home"
           /\ ~inflight[i].cur
           /\ RequestFilters(inflight[i]) # Filters(state)
           /\ genResolved
           /\ (ResolveFailure(i) \/ \E tp \in 0..MaxTotalPages : ResolveSuccess(i, tp)))
          => /\ state'.posts = state.posts
             /\ state'.page = state.page
             /\ state'.hasMore = state.hasMore
             /\ state'.error = state.error]_vars

\* C3: whenever no listing request is outstanding, every item of posts was
\* returned by a request made with the current filter values.
C3_OnlyCurrentFilterResults ==
    inflight = <<>>
        => \A k \in DOMAIN state.posts : state.posts[k].from = Filters(state)

\* C4: in Home, no two requests issued after the most recent reset are
\* outstanding at the same time.
C4_OneFetchPerGeneration ==
    component = "Home"
        => Cardinality({i \in DOMAIN inflight : inflight[i].cur}) <= 1

\* Scenario B applies: the committed feed is the following feed and the
\* closure of the last render holds no access token.
FollowingWithoutToken ==
    component = "Home" /\ stateRef.feedType = "following" /\ renderedToken = NoToken

\* C5: once everything a filter change set off has run (no commit is due and
\* no request is outstanding), page 1 has been requested with the new filter
\* values.  (The following feed without a token is left out: it is meant to
\* issue no request.)
C5_FilterChangeFetchesFirstPage ==
    (Quiescent /\ ~FollowingWithoutToken) => issuedFirst

\* A loadPosts() call made from the committed error state with hasMore set.
CallAfterFailure ==
    (SentinelTrigger \/ LoadMore \/ Retry) /\ stateRef.error # NoError /\ stateRef.hasMore

\* C6 (as claimed): the continuation of a failed request leaves the guard
\* free, the feed is never in the error state with the guard held, and a
\* loadPosts() call made in the error state with hasMore set issues a request.
C6_GuardReleasedAfterFailure ==
    /\ [][(\E i \in DOMAIN inflight : ResolveFailure(i)) => ~isFetchingRef']_vars
    /\ [](state.error # NoError => ~isFetchingRef)
    /\ [][CallAfterFailure => Len(inflight') = Len(inflight) + 1]_vars

\* C6 (amended): the same, except that with feedType = following and no
\* access token the call takes the short circuit instead of issuing a
\* request; the guard blocks neither.
C6_GuardReleasedAfterFailureAmended ==
    /\ [][(\E i \in DOMAIN inflight : ResolveFailure(i)) => ~isFetchingRef']_vars
    /\ [](state.error # NoError => ~isFetchingRef)
    /\ [][CallAfterFailure
             => IF FollowingWithoutToken
                THEN Len(inflight') = Len(inflight) /\ ~isFetchingRef' /\ ~state'.hasMore
                ELSE Len(inflight') = Len(inflight) + 1 /\ isFetchingRef']_vars

\* A failed request has just left the feed in the error state, guard free.
C6_Witness ==
    /\ state.error # NoError
    /\ ~isFetchingRef
    /\ state.hasMore
    /\ inflight = <<>>

\* C7: hasMore is true until a response is applied after a reset, and then
\* equals page <= totalPages of the response applied last.
C7_HasMoreCorrect ==
    state.hasMore = (IF lastTotal = <<>> THEN TRUE ELSE state.page <= lastTotal[1])

\* Two pages applied, the second one the last.
C7_Witness ==
    /\ lastTotal # <<>>
    /\ state.page = 3
    /\ ~state.hasMore
    /\ Len(state.posts) = 2 * ItemsPerPage

\* C8: with hasMore false, a loadPosts() call issues no request and changes
\* nothing of the feed state.
C8_NoLoadWithoutMore ==
    [][(SentinelTrigger \/ LoadMore) /\ ~state.hasMore
          => inflight' = inflight /\ state' = state /\ isFetchingRef' = isFetchingRef]_vars

\* loadMore can be called on a feed that has no more pages and a free guard.
C8_Witness ==
    /\ component = "usePosts"
    /\ ~NeedsRender
    /\ ~state.hasMore
    /\ ~isFetchingRef
    /\ Len(state.posts) > 0

\* The loadPosts() calls of Home that run with feedType = following and no
\* access token and get past the guard: from the sentinel, from Retry (after
\* its RESET), and from the filter-change effect (after its RESET; the effect
\* has cleared the guard).
ShortCircuitFromSentinel ==
    SentinelTrigger /\ FollowingWithoutToken /\ ~isFetchingRef /\ stateRef.hasMore

ShortCircuitFromRetry ==
    Retry /\ FollowingWithoutToken /\ ~isFetchingRef /\ stateRef.hasMore

ShortCircuitFromFilterEffect ==
    /\ HomeRender
    /\ ~isInitialMount
    /\ HomeFilterHasChanged(state)
    /\ state.feedType = "following" /\ accessToken = NoToken /\ state.hasMore

ShortCircuitResult ==
    /\ Len(inflight') = Len(inflight)
    /\ ~state'.hasMore
    /\ ~state'.loading
    /\ ~isFetchingRef'

\* C9 (as claimed): such a call issues no request and ends with posts = [],
\* hasMore = false, loading = false and the guard free.
C9_FollowingWithoutToken ==
    [][(ShortCircuitFromSentinel \/ ShortCircuitFromRetry \/ ShortCircuitFromFilterEffect)
          => ShortCircuitResult /\ state'.posts = <<>>]_vars

\* C9 (amended): such a call issues no request, appends nothing (posts is
\* what it was when the call started: unchanged for the sentinel, [] after
\* the RESET of Retry or of the filter-change effect), and ends with
\* hasMore = false, loading = false and the guard free.
C9_FollowingWithoutTokenAmended ==
    /\ [][ShortCircuitFromSentinel
             => ShortCircuitResult /\ state'.posts = state.posts]_vars
    /\ [][(ShortCircuitFromRetry \/ ShortCircuitFromFilterEffect)
             => ShortCircuitResult /\ state'.posts = <<>>]_vars

\* The short circuit has run on a following feed that already held posts.
C9_Witness ==
    /\ component = "Home"
    /\ state.feedType = "following"
    /\ accessToken = NoToken /\ renderedToken = NoToken
    /\ lastTotal = <<0>>
    /\ ~state.hasMore /\ ~state.loading /\ ~isFetchingRef
    /\ Len(state.posts) > 0
    /\ inflight = <<>>

\* C10: setting a filter to the value it already holds leaves posts, page
\* and hasMore unchanged.
C10_SameFilterValueKeepsFeed ==
    [][(\/ \E q \in Searches : q = state.searchQuery /\ SetSearch(q)
        \/ \E srt \in Sorts : srt = state.sortBy /\ SetSort(srt)
        \/ \E f \in FeedTypes : f = state.feedType /\ SetFeedType(f))
          => /\ state'.posts = state.posts
             /\ state'.page = state.page
             /\ state'.hasMore = state.hasMore]_vars

\* The commit that follows a change of searchQuery and of sortBy made in the
\* same tick.
RenderAfterSearchAndSort ==
    /\ HomeRender
    /\ state.searchQuery # stateRef.searchQuery
    /\ state.sortBy # stateRef.sortBy

\* The filter-change effect ran once in this commit and will not run again
\* for these filters.
OneFilterReset ==
    /\ prevFiltersRef # Filters(state)
    /\ prevFiltersRef' = Filters(state)
    /\ Filters(state') = Filters(state)

C12_RetryLoadsFirstPage ==
    [][Retry /\ Len(inflight') = Len(inflight) + 1
          => LET r == inflight'[Len(inflight')]
             IN  /\ r.page = 1
                 /\ RequestFilters(r) = Filters(state')]_vars

\* The reset actions each reducer handles.
ResetActions(comp) ==
    {Reset} \cup {SetSearchAction(q) : q \in Searches}
            \cup {SetSortAction(srt) : srt \in Sorts}
            \cup (IF comp = "Home" THEN {SetFeedTypeAction(f) : f \in FeedTypes} ELSE {})

ResetPostcondition(st) ==
    /\ st.posts = <<>>
    /\ st.page = 1
    /\ st.hasMore
    /\ st.error = NoError
    /\ ~st.loading

\* C13: RESET, SET_SEARCH, SET_SORT and SET_FEED_TYPE applied to any state
\* give posts = [], page = 1, hasMore = true, error = null, loading = false;
\* the handlers that only dispatch one of them issue no request.
C13_ResetPostcondition ==
    /\ [](\A a \in ResetActions(component) :
             ResetPostcondition(dispatch(component, state, a)))
    /\ [][(\/ \E q \in Searches : SetSearch(q)
           \/ \E srt \in Sorts : SetSort(srt)
           \/ \E f \in FeedTypes : SetFeedType(f))
             => ResetPostcondition(state') /\ Len(inflight') = Len(inflight)]_vars

\* A filter was set on a feed that had a page loaded and was in the error
\* state; the commit is still due.
C13_Witness ==
    /\ Filters(state) # Filters(stateRef)
    /\ stateRef.error # NoError
    /\ stateRef.page > 1
    /\ Len(stateRef.posts) > 0
    /\ ResetPostcondition(state)

\* C14: FETCH_ERROR sets loading = false and error, and leaves posts, page,
\* hasMore and the filters as they were; a failed request appends nothing.
C14_FailureKeepsFeed ==
    /\ [](dispatch(component, state, FetchError(ErrorMessage))
             = [state EXCEPT !.loading = FALSE, !.error = ErrorMessage])
    /\ [][(\E i \in DOMAIN inflight : ResolveFailure(i))
             => state' = [state EXCEPT !.loading = FALSE, !.error = ErrorMessage]]_vars

\* The request for page 2 failed after page 1 was loaded.
C14_Witness ==
    /\ state.error = ErrorMessage
    /\ ~state.loading
    /\ state.page = 2
    /\ state.hasMore
    /\ Len(state.posts) = ItemsPerPage
    /\ inflight = <<>>

\* C15: the continuation of every failed listing request, current or
\* superseded, is a FETCH_ERROR transition that stores the failure in
\* state.error; the rejection is consumed there (the request is settled and
\* nothing else of the feed changes).
C15_FailureCaptured ==
    [][\A i \in DOMAIN inflight :
          ResolveFailure(i)
             => /\ state' = dispatch(component, state, FetchError(ErrorMessage))
                /\ state'.error = ErrorMessage
                /\ Len(inflight') = Len(inflight) - 1]_vars

\* The first request of a feed failed.
C15_Witness ==
    /\ state.error = ErrorMessage
    /\ state.page = 1
    /\ state.posts = <<>>
    /\ ~state.loading
    /\ inflight = <<>>

\* ------------------------------------------------------------ Scenario A
\* A fresh feed, no filter change, no failure, and a server that reports the
\* same totalPages on every response.
ScenarioAResolve(i, tp) ==
    /\ lastTotal # <<>> => tp = lastTotal[1]
    /\ ResolveSuccess(i, tp)

NextScenarioA ==
    \/ Render
    \/ SentinelTrigger
    \/ LoadMore
    \/ \E i \in 1..MaxInFlight, tp \in 1..MaxTotalPages : ScenarioAResolve(i, tp)
    \/ \E t \in Tokens : SetAccessToken(t)
    \/ ClearAccessToken

SpecScenarioA == Init /\ [][NextScenarioA]_vars

\* The responses for pages 1..k of a collection of n pages, in page order.
RECURSIVE PagesUpTo(_, _)
PagesUpTo(k, n) ==
    IF k = 0
    THEN <<>>
    ELSE PagesUpTo(k - 1, n)
         \o ResponsePosts([page |-> k, searchQuery |-> state.searchQuery,
                           sortBy |-> state.sortBy, feedType |-> state.feedType], n)

\* C16: with totalPages = N on every response, after k successful loads
\* (k <= N) pages 1..k were requested in that order, posts is the
\* concatenation of the k responses, and hasMore is true while k < N and
\* false once k = N; the request outstanding is the one for page k + 1.
C16_ScenarioA ==
    LET k == state.page - 1
    IN  /\ lastTotal = <<>> => k = 0
        /\ lastTotal # <<>>
              => /\ k \in 1..lastTotal[1]
                 /\ state.hasMore = (k < lastTotal[1])
                 /\ state.posts = PagesUpTo(k, lastTotal[1])
                 /\ Len(state.posts) = k * ItemsPerPage
        /\ lastTotal = <<>> => state.posts = <<>> /\ state.hasMore
        /\ Len(inflight) <= 1
        /\ \A i \in DOMAIN inflight :
              inflight[i].page = k + 1 /\ RequestFilters(inflight[i]) = Filters(state)

\* All pages of the largest collection are loaded.
C16_Witness ==
    /\ lastTotal = <<MaxTotalPages>>
    /\ state.page = MaxTotalPages + 1
    /\ ~state.hasMore
    /\ Len(state.posts) = MaxTotalPages * ItemsPerPage
    /\ inflight = <<>>

\* C17: while the committed state has loading = true or hasMore = false no
\* observer is registered on the sentinel, and the observer callback does
\* not run in such a state.
C17_SentinelInert ==
    /\ []((stateRef.loading \/ ~stateRef.hasMore) => ~observing)
    /\ [][SentinelTrigger => ~stateRef.loading /\ stateRef.hasMore]_vars

\* A load is in progress and committed; the sentinel is not observed.
C17_Witness ==
    /\ ~NeedsRender
    /\ stateRef.loading
    /\ stateRef.hasMore
    /\ Len(inflight) = 1
    /\ ~observing

\* ------------------------------------------------------------ the sentinel
\* The sentinel element scrolls into and out of the viewport.
MarkerBecomesVisible ==
    /\ ~visible
    /\ visible' = TRUE
    /\ invoked' = FALSE
    /\ UNCHANGED <<component, state, stateRef, isInitialMount, isFetchingRef,
                   prevFiltersRef, observing, observerToken, accessToken,
                   renderedToken, inflight, genResolved, lastTotal, issuedFirst,
                   prevIntersecting, user, authLoading, lastPage, successes, leftover, mounted, calls>>

MarkerLeaves ==
    /\ visible
    /\ visible' = FALSE
    /\ UNCHANGED <<component, state, stateRef, isInitialMount, isFetchingRef,
                   prevFiltersRef, observing, observerToken, accessToken,
                   renderedToken, inflight, genResolved, lastTotal, issuedFirst,
                   prevIntersecting, invoked, user, authLoading, lastPage, successes, leftover, mounted, calls>>

\* The observer delivers an entry when isIntersecting differs from what it
\* delivered last; a new observer has delivered nothing, so it reports a
\* sentinel that is visible when observe() is called.  The callback calls
\* loadPosts() when entries[0].isIntersecting.
ObserverNotify ==
    /\ observing
    /\ Handle
    /\ visible # prevIntersecting
    /\ prevIntersecting' = visible
    /\ IF visible
       THEN /\ Commit(loadPosts(component, Ctx, stateRef, observerToken))
            /\ invoked' = TRUE
       ELSE UNCHANGED <<state, isFetchingRef, inflight, genResolved, lastTotal,
                        issuedFirst, invoked, lastPage, successes>>
    /\ UNCHANGED <<component, stateRef, isInitialMount, prevFiltersRef, observing,
                   observerToken, accessToken, renderedToken, visible, user,
                   authLoading, leftover, mounted, calls>>

\* The component unmounts: the cleanup of the observer effect runs.
Unmount ==
    /\ Handle
    /\ mounted' = FALSE
    /\ observing' = FALSE
    /\ leftover' = ObserverCleanup(Registered)
    /\ UNCHANGED <<component, state, stateRef, isInitialMount, isFetchingRef,
                   prevFiltersRef, observerToken, accessToken, renderedToken,
                   inflight, genResolved, lastTotal, issuedFirst, visible,
                   prevIntersecting, invoked, user, authLoading, lastPage,
                   successes, calls>>

NextSentinel ==
    \/ Render
    \/ MarkerBecomesVisible
    \/ MarkerLeaves
    \/ ObserverNotify
    \/ \E t \in Tokens : SetAccessToken(t)
    \/ ClearAccessToken
    \/ Unmount
    \/ \E i \in 1..MaxInFlight, tp \in 0..MaxTotalPages : ResolveSuccess(i, tp)
    \/ \E i \in 1..MaxInFlight : ResolveFailure(i)

SpecSentinel == Init /\ [][NextSentinel]_vars

\* C18: the load callback is invoked at most once per transition of the
\* sentinel from not visible to visible; a load that completes while the
\* sentinel stays visible does not lead to another invocation.
C18_SentinelEdgeTriggered ==
    [][ObserverNotify /\ visible => ~invoked]_vars

\* ------------------------------------------------- AuthContext, step by step
\* What the AuthContext actions leave alone.
feed == <<component, state, stateRef, isInitialMount, isFetchingRef,
          prevFiltersRef, observing, observerToken, renderedToken, inflight,
          genResolved, lastTotal, issuedFirst, visible, prevIntersecting,
          invoked, lastPage, successes, leftover, mounted>>

\* initializeAuth: authService.refreshToken() resolved.
RenewalTokenArrives(t) ==
    /\ component = "Home"
    /\ Handle
    /\ authLoading
    /\ accessToken = NoToken
    /\ accessToken' = t
    /\ UNCHANGED <<feed, calls, user, authLoading>>

\* initializeAuth: authService.getCurrentUser() resolved; setUser, then
\* setLoading(false) in finally.
RenewalUserArrives ==
    /\ component = "Home"
    /\ Handle
    /\ authLoading
    /\ accessToken # NoToken
    /\ user' = TRUE
    /\ authLoading' = FALSE
    /\ UNCHANGED <<feed, calls, accessToken>>

\* initializeAuth: one of the two calls rejected; catch, then finally.
RenewalFails ==
    /\ component = "Home"
    /\ Handle
    /\ authLoading
    /\ authLoading' = FALSE
    /\ UNCHANGED <<feed, calls, accessToken, user>>

\* login: authService.login() resolved.
LoginTokenArrives(t) ==
    /\ component = "Home"
    /\ Handle
    /\ ~authLoading
    /\ ~user
    /\ accessToken = NoToken
    /\ accessToken' = t
    /\ UNCHANGED <<feed, calls, user, authLoading>>

\* login: authService.getCurrentUser() resolved.
LoginUserArrives ==
    /\ component = "Home"
    /\ Handle
    /\ ~authLoading
    /\ ~user
    /\ accessToken # NoToken
    /\ user' = TRUE
    /\ UNCHANGED <<feed, calls, accessToken, authLoading>>

\* Faulty variant: logging out starts the startup renewal over.
LogoutRestartsLoading ==
    /\ component = "Home"
    /\ Handle
    /\ isAuthenticated
    /\ user' = FALSE
    /\ accessToken' = NoToken
    /\ authLoading' = TRUE
    /\ UNCHANGED <<feed, calls>>

\* logout (Header, shown to an authenticated user): finally setUser(null),
\* setAccessToken(null).
Logout ==
    /\ component = "Home"
    /\ Handle
    /\ isAuthenticated
    /\ user' = FALSE
    /\ accessToken' = NoToken
    /\ UNCHANGED <<feed, calls, authLoading>>

NextAuth ==
    \/ Render
    \/ \E f \in FeedTypes : SetFeedType(f)
    \/ SentinelTrigger
    \/ \E i \in 1..MaxInFlight, tp \in 0..MaxTotalPages : ResolveSuccess(i, tp)
    \/ \E i \in 1..MaxInFlight : ResolveFailure(i)
    \/ \E t \in Tokens : RenewalTokenArrives(t)
    \/ RenewalUserArrives
    \/ RenewalFails
    \/ \E t \in Tokens : LoginTokenArrives(t)
    \/ LoginUserArrives
    \/ Logout

SpecAuth == Init /\ [][NextAuth]_vars

C21_RenewalFailureIsAnonymous ==
    [][RenewalFails => accessToken' = NoToken /\ ~user']_vars

\* A step of Home that issues a listing request.
HomeIssues == component = "Home" /\ Len(inflight') = Len(inflight) + 1

\* C22: every listing request of Home leaves with the access token
\* AuthContext holds when it is issued (none when there is none).
C22_RequestCarriesCurrentToken ==
    [][HomeIssues => inflight'[Len(inflight')].token = accessToken]_vars

\* Page 2 is being requested with a token, page 1 being loaded.
C22_Witness ==
    /\ component = "Home"
    /\ accessToken # NoToken
    /\ Len(state.posts) > 0
    /\ Len(inflight) = 1
    /\ inflight[1].page = 2
    /\ inflight[1].token = accessToken

\* C23: in the error state (error set, loading = false) a visibility event on
\* the sentinel starts no fetch; only a retry or a filter change leaves it.
C23_ErroredIsInert ==
    [][SentinelTrigger /\ state.error # NoError /\ ~state.loading
          => Len(inflight') = Len(inflight) /\ state' = state]_vars

\* C24: between two resets Home requests strictly increasing page numbers.
\* (A request issued in the step that resets is the first one after the
\* reset; the sentinel's requests are the ones that follow an earlier one.)
C24_PagesStrictlyIncreasing ==
    [][SentinelTrigger /\ HomeIssues
          => inflight'[Len(inflight')].page > lastPage]_vars

\* --------------------------------------------------- failures of a request
\* How a listing request fails: fetch() rejects (no response), or the server
\* answers with a non-2xx status and a body whose detail may be missing.
NoDetail == ""
Details == {NoDetail, "Not authenticated"}
Statuses == {401, 403, 500}
Failures ==
    {[network |-> TRUE, status |-> 0, detail |-> NoDetail]}
      \cup {[network |-> FALSE, status |-> st, detail |-> d] :
               st \in Statuses, d \in Details}

\* `HTTP error! status: ${response.status}`
StatusMessage(st) ==
    CASE st = 401 -> "HTTP error! status: 401"
      [] st = 403 -> "HTTP error! status: 403"
      [] st = 500 -> "HTTP error! status: 500"

\* handleResponse: the message of the ApiError it throws.
ApiErrorMessage(f) ==
    IF f.detail # NoDetail THEN f.detail ELSE StatusMessage(f.status)

\* The payload of FETCH_ERROR: error.message of what the request rejected
\* with (a TypeError of fetch, or the ApiError of handleResponse).
ErrorPayload(f) ==
    IF f.network THEN "Failed to fetch" ELSE ApiErrorMessage(f)

\* The continuation of loadPosts after request i rejected with failure f.
AfterFailureWith(comp, c, i, f) ==
    LET req == c.inflight[i]
        c1 == Do(comp, c, FetchError(ErrorPayload(f)))
    IN  [c1 EXCEPT !.isFetching = FALSE,
                   !.genResolved = c.genResolved \/ req.cur,
                   !.inflight = SubSeq(c.inflight, 1, i - 1)
                                \o SubSeq(c.inflight, i + 1, Len(c.inflight))]

ResolveFailureWith(i, f) ==
    /\ i \in 1..Len(inflight)
    /\ Handle
    /\ Commit(AfterFailureWith(component, Ctx, i, f))
    /\ UNCHANGED frame

NextErrors ==
    \/ Render
    \/ SentinelTrigger
    \/ LoadMore
    \/ \E i \in 1..MaxInFlight, tp \in 0..MaxTotalPages : ResolveSuccess(i, tp)
    \/ \E i \in 1..MaxInFlight, f \in Failures : ResolveFailureWith(i, f)

SpecErrors == Init /\ [][NextErrors]_vars

\* The error kinds a failure belongs to.
ErrorKind(f) ==
    IF f.network THEN "NetworkFailure"
    ELSE IF f.status = 401 THEN "AuthExpired"
    ELSE IF f.status >= 500 THEN "ServerFault"
    ELSE "ServerRejected"

\* C25: what a failed request leaves in state.error tells the kind of the
\* failure: an expired token (401) is told apart from a network failure,
\* another 4xx and a 5xx.
C25_AuthFailureKind ==
    [][\A i \in DOMAIN inflight, f \in Failures :
          ResolveFailureWith(i, f)
             => \A g \in Failures :
                   ErrorPayload(g) = state'.error => ErrorKind(g) = ErrorKind(f)]_vars

\* A step in which a reset action (RESET, SET_*) is dispatched.
ResetStep ==
    \/ \E q \in Searches : SetSearch(q)
    \/ \E srt \in Sorts : SetSort(srt)
    \/ \E q \in Searches, srt \in Sorts : SetSearchThenSort(q, srt)
    \/ \E f \in FeedTypes : SetFeedType(f)
    \/ Retry
    \/ HomeRender /\ HomeFilterHasChanged(state)

IsPrefix(p, q) == Len(p) <= Len(q) /\ SubSeq(q, 1, Len(p)) = p

\* C26: FETCH_SUCCESS keeps the posts it finds as a prefix and appends the
\* items of the response in the response's order; no step without a reset
\* removes, reorders or replaces an item of posts.
C26_AppendOnly ==
    /\ [][\A i \in DOMAIN inflight, tp \in 0..MaxTotalPages :
             ResolveSuccess(i, tp)
                => state'.posts = state.posts \o ResponsePosts(inflight[i], tp)]_vars
    /\ [][~ResetStep => IsPrefix(state.posts, state'.posts)]_vars

\* Page 1 and then page 2 were appended.
C26_Witness ==
    /\ Len(state.posts) = 2 * ItemsPerPage
    /\ state.posts[1].id[4] = 1
    /\ state.posts[Len(state.posts)].id[4] = 2
    /\ state.posts[1].from = state.posts[Len(state.posts)].from

\* C27: page = 1 + the number of FETCH_SUCCESS transitions since the last
\* reset, and page >= 1; FETCH_SUCCESS adds 1, FETCH_ERROR and FETCH_START
\* leave page alone, and no step without a reset decreases it.
C27_PageCountsSuccesses ==
    /\ [](state.page = 1 + successes /\ state.page >= 1)
    /\ [][(\E i \in DOMAIN inflight, tp \in 0..MaxTotalPages : ResolveSuccess(i, tp))
             => state'.page = state.page + 1]_vars
    /\ [][(\E i \in DOMAIN inflight : ResolveFailure(i))
             => state'.page = state.page]_vars
    /\ [][((SentinelTrigger \/ LoadMore) /\ Len(inflight') = Len(inflight) + 1)
             => state'.page = state.page /\ state'.loading]_vars
    /\ [][~ResetStep => state'.page >= state.page]_vars

\* Two pages were applied since the last reset, the second requested last.
C27_Witness ==
    /\ successes = 2
    /\ state.page = 3
    /\ lastPage = 2

\* C28: a response is applied to the state its request was issued for: the
\* request's page is state.page and its filters are the current filters when
\* FETCH_SUCCESS is applied.
C28_ResponseMatchesState ==
    [][\A i \in DOMAIN inflight, tp \in 0..MaxTotalPages :
          ResolveSuccess(i, tp)
             => /\ inflight[i].page = state.page
                /\ RequestFilters(inflight[i]) = Filters(state)]_vars

\* C29: isFetchingRef is true only while a listing request is outstanding;
\* once every call has finished (success, failure or the short circuit of
\* the following feed without a token) it is false.
C29_GuardNeverSticks ==
    /\ [](isFetchingRef => inflight # <<>>)
    /\ [][(\/ \E i \in DOMAIN inflight, tp \in 0..MaxTotalPages : ResolveSuccess(i, tp)
           \/ \E i \in DOMAIN inflight : ResolveFailure(i)
           \/ ShortCircuitFromSentinel \/ ShortCircuitFromRetry
           \/ ShortCircuitFromFilterEffect)
             => ~isFetchingRef']_vars

\* A success and then a failure have finished; nothing is outstanding.
C29_Witness ==
    /\ successes = 1
    /\ state.error # NoError
    /\ ~state.loading
    /\ inflight = <<>>
    /\ ~isFetchingRef

\* C30: when the observer effect re-runs or the component unmounts, the
\* observation of the earlier render is unregistered: the only callback a
\* visibility event can reach is the one of the last commit, with the token
\* that commit saw, and none after the unmount.
C30_SentinelTeardown ==
    /\ [](leftover = {})
    /\ []((observing /\ component = "Home" /\ Handle) => observerToken = accessToken)
    /\ [](~mounted => Registered = {})
    /\ [][ObserverNotify /\ HomeIssues
             => inflight'[Len(inflight')].token = accessToken]_vars

\* Unmounted with the sentinel in view, after the observer had been set up
\* again for a new access token.
C30_Witness ==
    /\ component = "Home"
    /\ ~mounted
    /\ visible
    /\ observerToken # NoToken
    /\ accessToken = observerToken
    /\ ~observing

\* C31: the mount commit issues exactly one request, for page 1 with the
\* initial filters, and dispatches FETCH_START only; a later commit whose
\* filter values are those of the commit before it issues no request and
\* dispatches nothing (no RESET).
MountCommit == Render /\ isInitialMount

UnchangedFiltersCommit ==
    Render /\ ~isInitialMount /\ Filters(state) = Filters(stateRef)

C31_MountLoadsOnce ==
    /\ [][MountCommit
            => /\ inflight = <<>>
               /\ Len(inflight') = 1
               /\ inflight'[1].page = 1
               /\ RequestFilters(inflight'[1]) = Filters(state)
               /\ state' = [state EXCEPT !.loading = TRUE]]_vars
    /\ [][UnchangedFiltersCommit => inflight' = inflight /\ state' = state]_vars
    /\ [][isInitialMount' => isInitialMount]_vars

\* The commit after the first page arrived: same filters, nothing requested.
C31_Witness ==
    /\ ~isInitialMount
    /\ stateRef = state
    /\ successes = 1
    /\ Len(state.posts) = 1
    /\ state.hasMore
    /\ inflight = <<>>
    /\ issuedFirst

\* C32: SET_SEARCH changes searchQuery only, SET_SORT sortBy only,
\* SET_FEED_TYPE feedType only and RESET none of the three filter fields, in
\* every reachable state and in every step that dispatches them.
SetterFrame(st) ==
    /\ \A q \in Searches :
          Filters(dispatch(component, st, SetSearchAction(q)))
            = [Filters(st) EXCEPT !.searchQuery = q]
    /\ \A o \in Sorts :
          Filters(dispatch(component, st, SetSortAction(o)))
            = [Filters(st) EXCEPT !.sortBy = o]
    /\ component = "Home" =>
          \A f \in FeedTypes :
             Filters(dispatch(component, st, SetFeedTypeAction(f)))
               = [Filters(st) EXCEPT !.feedType = f]
    /\ Filters(dispatch(component, st, Reset)) = Filters(st)

C32_SettersChangeOneField ==
    /\ [](SetterFrame(state))
    /\ [][\A q \in Searches :
            SetSearch(q) => Filters(state') = [Filters(state) EXCEPT !.searchQuery = q]]_vars
    /\ [][\A o \in Sorts :
            SetSort(o) => Filters(state') = [Filters(state) EXCEPT !.sortBy = o]]_vars
    /\ [][\A f \in FeedTypes :
            SetFeedType(f) => Filters(state') = [Filters(state) EXCEPT !.feedType = f]]_vars
    /\ [][Render \/ Retry => Filters(state') = Filters(state)]_vars

\* The search was just set while the sort and the feed were not the initial
\* ones: both kept their values.
C32_Witness ==
    /\ component = "Home"
    /\ ~isInitialMount
    /\ state.searchQuery # prevFiltersRef.searchQuery
    /\ state.sortBy # initialState.sortBy
    /\ state.feedType # initialState.feedType
    /\ state.sortBy = prevFiltersRef.sortBy
    /\ state.feedType = prevFiltersRef.feedType

\* --------------------------------------- AuthContext, call by call
\* initializeAuth, login() and logout() with their awaited network calls;
\* calls.init, calls.login and calls.logout are the await each one stands at.
\* History: calls.pre is the session when the last login() was called,
\* calls.rejected the calls that rejected to their caller, calls.logoutFailed
\* whether the last logout API call failed, calls.stale the calls that were
\* pending when a logout() completed.
Pending ==
    (IF calls.init # "done" THEN {"init"} ELSE {})
      \cup (IF calls.login # "idle" THEN {"login"} ELSE {})

\* initializeAuth: authService.refreshToken() resolved; setAccessToken.
InitRefreshResolves(t) ==
    /\ component = "Home"
    /\ Handle
    /\ calls.init = "refresh"
    /\ accessToken' = t
    /\ calls' = [calls EXCEPT !.init = "user"]
    /\ UNCHANGED <<feed, user, authLoading>>

\* initializeAuth: authService.getCurrentUser() resolved; setUser, then
\* setLoading(false) in finally.
InitUserResolves ==
    /\ component = "Home"
    /\ Handle
    /\ calls.init = "user"
    /\ user' = TRUE
    /\ authLoading' = FALSE
    /\ calls' = [calls EXCEPT !.init = "done", !.stale = @ \ {"init"}]
    /\ UNCHANGED <<feed, accessToken>>

\* initializeAuth: the awaited call rejected; catch logs, finally
\* setLoading(false).
InitRejects ==
    /\ component = "Home"
    /\ Handle
    /\ calls.init \in {"refresh", "user"}
    /\ authLoading' = FALSE
    /\ calls' = [calls EXCEPT !.init = "done", !.stale = @ \ {"init"}]
    /\ UNCHANGED <<feed, accessToken, user>>

\* Login.handleSubmit calls login(formData).
LoginCall ==
    /\ component = "Home"
    /\ Handle
    /\ calls.login = "idle"
    /\ calls' = [calls EXCEPT !.login = "login",
                              !.pre = <<accessToken, user>>,
                              !.rejected = @ \ {"login"},
                              !.stale = @ \ {"login"}]
    /\ UNCHANGED <<feed, accessToken, user, authLoading>>

\* login: authService.login() resolved; setAccessToken.
LoginResolves(t) ==
    /\ component = "Home"
    /\ Handle
    /\ calls.login = "login"
    /\ accessToken' = t
    /\ calls' = [calls EXCEPT !.login = "user"]
    /\ UNCHANGED <<feed, user, authLoading>>

\* login: authService.getCurrentUser() resolved; setUser.
LoginUserResolves ==
    /\ component = "Home"
    /\ Handle
    /\ calls.login = "user"
    /\ user' = TRUE
    /\ calls' = [calls EXCEPT !.login = "idle"]
    /\ UNCHANGED <<feed, accessToken, authLoading>>

\* login: the awaited call rejected; catch logs and rethrows.
LoginRejects ==
    /\ component = "Home"
    /\ Handle
    /\ calls.login \in {"login", "user"}
    /\ calls' = [calls EXCEPT !.login = "idle", !.rejected = @ \cup {"login"}]
    /\ UNCHANGED <<feed, accessToken, user, authLoading>>

\* Header.handleLogout (the button is rendered when isAuthenticated && user).
LogoutCall ==
    /\ component = "Home"
    /\ Handle
    /\ calls.logout = "idle"
    /\ user
    /\ accessToken # NoToken
    /\ calls' = [calls EXCEPT !.logout = "api", !.rejected = @ \ {"logout"}]
    /\ UNCHANGED <<feed, accessToken, user, authLoading>>

\* logout: authService.logout() resolved; finally setUser(null),
\* setAccessToken(null).
LogoutApiResolves ==
    /\ component = "Home"
    /\ Handle
    /\ calls.logout = "api"
    /\ user' = FALSE
    /\ accessToken' = NoToken
    /\ calls' = [calls EXCEPT !.logout = "idle", !.logoutFailed = FALSE,
                              !.stale = Pending]
    /\ UNCHANGED <<feed, authLoading>>

\* Faulty variant: no catch and no finally around the logout API call.
LogoutApiRejectsUncaught ==
    /\ component = "Home"
    /\ Handle
    /\ calls.logout = "api"
    /\ calls' = [calls EXCEPT !.logout = "idle", !.logoutFailed = TRUE,
                              !.rejected = @ \cup {"logout"}]
    /\ UNCHANGED <<feed, accessToken, user, authLoading>>

\* logout: authService.logout() rejected; catch logs, finally setUser(null),
\* setAccessToken(null).
LogoutApiRejects ==
    /\ component = "Home"
    /\ Handle
    /\ calls.logout = "api"
    /\ user' = FALSE
    /\ accessToken' = NoToken
    /\ calls' = [calls EXCEPT !.logout = "idle", !.logoutFailed = TRUE,
                              !.stale = Pending]
    /\ UNCHANGED <<feed, authLoading>>

NextSession ==
    \/ Render
    \/ \E i \in 1..MaxInFlight, tp \in 0..MaxTotalPages : ResolveSuccess(i, tp)
    \/ \E i \in 1..MaxInFlight : ResolveFailure(i)
    \/ \E t \in Tokens : InitRefreshResolves(t)
    \/ InitUserResolves
    \/ InitRejects
    \/ LoginCall
    \/ \E t \in Tokens : LoginResolves(t)
    \/ LoginUserResolves
    \/ LoginRejects
    \/ LogoutCall
    \/ LogoutApiResolves
    \/ LogoutApiRejects

SpecSession == Init /\ [][NextSession]_vars

\* C33: logout() ends with user = null and accessToken = null whether its
\* API call resolved or rejected, and it does not reject to its caller.
C33_LogoutAlwaysClears ==
    [][LogoutApiResolves \/ LogoutApiRejects
         => /\ ~user'
            /\ accessToken' = NoToken
            /\ calls'.logout = "idle"
            /\ "logout" \notin calls'.rejected]_vars

\* A logout whose API call failed has just completed.
C33_Witness ==
    /\ calls.logoutFailed
    /\ calls.logout = "idle"
    /\ ~user
    /\ accessToken = NoToken
    /\ accessToken # renderedToken

\* C34: in every state of AuthContext user != null implies
\* accessToken != null, and a renewal or a login that was pending when a
\* logout() completed changes neither user nor accessToken afterwards.
InitStep ==
    (\E t \in Tokens : InitRefreshResolves(t)) \/ InitUserResolves \/ InitRejects

LoginStep ==
    (\E t \in Tokens : LoginResolves(t)) \/ LoginUserResolves \/ LoginRejects

C34_SessionConsistent ==
    /\ [](user => accessToken # NoToken)
    /\ [][InitStep /\ "init" \in calls.stale
            => user' = user /\ accessToken' = accessToken]_vars
    /\ [][LoginStep /\ "login" \in calls.stale
            => user' = user /\ accessToken' = accessToken]_vars

\* C35: when login() rejects, at either of its two requests, accessToken and
\* user are what they were when login() was called.
C35_FailedLoginLeavesSession ==
    [][LoginRejects => accessToken' = calls.pre[1] /\ user' = calls.pre[2]]_vars

\* C36: in every committed state, state.loading is true exactly when a
\* listing request issued by loadPosts is outstanding.
C36_LoadingReflectsOutstanding ==
    ~NeedsRender => (state.loading <=> inflight # <<>>)

\* C37: the posts of the Home feed never hold two items with the same id
\* (the server's pages being disjoint for the same filters).
C37_NoDuplicateIds ==
    component = "Home"
      => \A i, j \in DOMAIN state.posts :
            i # j => state.posts[i].id # state.posts[j].id

====
